---- MODULE Spec2Model ----
(***************************************************************************)
(* Block-tree synchronisation of mcp-logseq: LogSeq.replace_children and   *)
(* the helpers it calls (src/src/mcp_logseq/logseq.py), run against a      *)
(* remote graph whose insertBlock appends the new block as last child.     *)
(*                                                                         *)
(* Every remote call is one atomic step of the invocation that issues it;  *)
(* the recursion of _insert_block_tree is an explicit stack of frames.     *)
(*                                                                         *)
(* Spec is one invocation against a remote that may fail or answer oddly,  *)
(* SpecConc two invocations at once against a well-behaved remote,         *)
(* SpecTool the tool handler around one invocation (tools.py), and         *)
(* SpecShapes the two helpers _get_children_tree and _extract_block_uuid   *)
(* applied to one decoded response each.                                   *)
(***************************************************************************)
EXTENDS Integers, Sequences, FiniteSets, TLC

(***************************************************************************)
(* Bounds of the model.                                                    *)
(***************************************************************************)
\* most block specs (nodes) in the forest handed to one invocation
MaxNodes == 3
\* most children the target has before the first invocation
MaxExisting == 2
\* most block specs per invocation when two invocations run concurrently
MaxConcNodes == 1
\* longest array in a response handed to a helper on its own
MaxListLen == 2

\* the invocations (tool calls); the second one runs only in SpecConc
Procs == {1, 2}

(***************************************************************************)
(* JSON / Python values.  A value is a record tagged by its type, so that  *)
(* isinstance() is a test of the tag.                                      *)
(***************************************************************************)
JNull == [t |-> "null"]
JStr(s) == [t |-> "str", s |-> s]
JNum(n) == [t |-> "num", n |-> n]
JBool(b) == [t |-> "bool", b |-> b]
JList(xs) == [t |-> "list", xs |-> xs]
JObj(f) == [t |-> "obj", f |-> f]

\* dict.get(key): None when the key is absent
Get(obj, key) == IF key \in DOMAIN obj.f THEN obj.f[key] ELSE JNull

\* Python truthiness of a value
Truthy(v) ==
    CASE v.t = "null" -> FALSE
      [] v.t = "str" -> v.s # ""
      [] v.t = "num" -> v.n # 0
      [] v.t = "bool" -> v.b
      [] v.t = "list" -> v.xs # <<>>
      [] v.t = "obj" -> DOMAIN v.f # {}

\* mutation of UuidKeys: id is tried before uuid
IdFirst == <<"id", "uuid">>

\* the keys _extract_block_uuid tries, in order
UuidKeys == <<"uuid", "id">>

\* mutation of FirstStrKey: the value is tested against None instead of
\* with isinstance(value, str)
RECURSIVE FirstPresentKey(_, _)
FirstPresentKey(obj, i) ==
    IF i > Len(UuidKeys) THEN JNull
    ELSE IF Get(obj, UuidKeys[i]) # JNull THEN Get(obj, UuidKeys[i])
    ELSE FirstPresentKey(obj, i + 1)

\* the first of UuidKeys, from position i on, whose value in obj is a string
RECURSIVE FirstStrKey(_, _)
FirstStrKey(obj, i) ==
    IF i > Len(UuidKeys) THEN JNull
    ELSE IF Get(obj, UuidKeys[i]).t = "str" THEN Get(obj, UuidKeys[i])
    ELSE FirstStrKey(obj, i + 1)

\* LogSeq._extract_block_uuid: a string (JStr) or None (JNull)
ExtractBlockUuid(result) ==
    IF result.t = "str" THEN result
    ELSE IF result.t = "obj"
    THEN IF FirstStrKey(result, 1) # JNull THEN FirstStrKey(result, 1)
         ELSE IF Get(result, "block").t = "obj"
              THEN FirstStrKey(Get(result, "block"), 1)
              ELSE JNull
    ELSE JNull

\* mutation of ChildrenOfPayload: `or []` is left out after tree.get
ChildrenWithoutDefault(tree) ==
    IF ~Truthy(tree) THEN [value |-> JList(<<>>), warned |-> FALSE]
    ELSE IF tree.t = "obj"
    THEN [value |-> Get(tree, "children"), warned |-> FALSE]
    ELSE IF tree.t = "list" THEN [value |-> tree, warned |-> FALSE]
    ELSE [value |-> JList(<<>>), warned |-> TRUE]

\* mutation of ChildrenOfPayload: the fallback logs nothing
SilentFallback(tree) ==
    IF ~Truthy(tree) THEN [value |-> JList(<<>>), warned |-> FALSE]
    ELSE IF tree.t = "obj"
    THEN [value |-> IF Truthy(Get(tree, "children")) THEN Get(tree, "children")
                    ELSE JList(<<>>),
          warned |-> FALSE]
    ELSE IF tree.t = "list" THEN [value |-> tree, warned |-> FALSE]
    ELSE [value |-> JList(<<>>), warned |-> FALSE]

\* the normalisation of LogSeq._get_children_tree: the value returned and
\* whether the warning is logged
ChildrenOfPayload(tree) ==
    IF ~Truthy(tree) THEN [value |-> JList(<<>>), warned |-> FALSE]
    ELSE IF tree.t = "obj"
    THEN [value |-> IF Truthy(Get(tree, "children")) THEN Get(tree, "children")
                    ELSE JList(<<>>),
          warned |-> FALSE]
    ELSE IF tree.t = "list" THEN [value |-> tree, warned |-> FALSE]
    ELSE [value |-> JList(<<>>), warned |-> TRUE]

(***************************************************************************)
(* Block specs: the dicts of the caller's `blocks`.  A spec is a function  *)
(* from its keys to their values; "children" and "custom_uuid" are         *)
(* optional, and a spec without "content" is what the inserter rejects.    *)
(* The contents are c1, c2, ... in pre-order, so a content names its node. *)
(***************************************************************************)
Label(k) == "c" \o ToString(k)
CustomUuid == "k1"

\* node k of a forest: no content when k = inv, a custom uuid when k = cu
BlockSpec(k, kids, inv, cu) ==
    LET keys == (IF k = inv THEN {} ELSE {"content"})
                \cup (IF kids = <<>> THEN {} ELSE {"children"})
                \cup (IF k = cu THEN {"custom_uuid"} ELSE {})
    IN  [key \in keys |->
            CASE key = "content" -> Label(k)
              [] key = "children" -> kids
              [] key = "custom_uuid" -> CustomUuid]

\* the forests of exactly n nodes, numbered from k in pre-order
RECURSIVE ForestsFrom(_, _, _, _)
ForestsFrom(n, k, inv, cu) ==
    IF n = 0 THEN {<<>>}
    ELSE UNION { { <<BlockSpec(k, kids, inv, cu)>> \o rest :
                      kids \in ForestsFrom(m - 1, k + 1, inv, cu),
                      rest \in ForestsFrom(n - m, k + m, inv, cu) } :
                 m \in 1..n }

\* the forests of at most N nodes: well formed, or one node without
\* content, or the last node carrying a custom uuid
BlockForests(N) ==
    UNION { ForestsFrom(n, 1, 0, 0)
            \cup ForestsFrom(n, 1, 0, n)
            \cup UNION { ForestsFrom(n, 1, i, 0) : i \in 1..n } :
            n \in 0..N }

\* mutation of MissingContent: the check is left out
NeverMissing(block_data) == FALSE

\* `"content" not in block_data`
MissingContent(block_data) == "content" \notin DOMAIN block_data

\* block_data["content"], read only once the check above has passed
ContentOf(block_data) ==
    IF "content" \in DOMAIN block_data THEN block_data["content"] ELSE ""

\* block_data.get("children", []) or []
ChildSpecs(block_data) ==
    IF "children" \in DOMAIN block_data THEN block_data["children"] ELSE <<>>

\* block_data.get("custom_uuid")
CustomOf(block_data) ==
    IF "custom_uuid" \in DOMAIN block_data
    THEN JStr(block_data["custom_uuid"]) ELSE JNull

\* the specs of a forest in pre-order
RECURSIVE PreOrder(_)
PreOrder(forest) ==
    IF forest = <<>> THEN <<>>
    ELSE <<Head(forest)>> \o PreOrder(ChildSpecs(Head(forest)))
         \o PreOrder(Tail(forest))

(***************************************************************************)
(* The remote graph.  graph.kids maps the target and every block to the    *)
(* ordered uuids of its children, graph.text maps a block to its content.  *)
(***************************************************************************)
Target == "Page A"
ExistingUuid(i) == "e" \o ToString(i)
FreshUuid(n) == "n" \o ToString(n)

\* the errors a remote call raises: raise_for_status (an HTTP error status)
\* and a transport failure of requests.post
RemoteErrors == {"HTTPError", "ConnectionError"}

\* the target with n children e1..en, the first of which has a child g1
InitialGraph(n) ==
    [kids |-> [r \in {Target} \cup {ExistingUuid(i) : i \in 1..n}
                     \cup (IF n > 0 THEN {"g1"} ELSE {}) |->
                  IF r = Target THEN [i \in 1..n |-> ExistingUuid(i)]
                  ELSE IF r = ExistingUuid(1) THEN <<"g1">>
                  ELSE <<>>],
     text |-> [u \in {ExistingUuid(i) : i \in 1..n}
                     \cup (IF n > 0 THEN {"g1"} ELSE {}) |-> "old"]]

\* a block and everything below it
RECURSIVE Subtree(_, _)
Subtree(g, u) ==
    {u} \cup UNION { Subtree(g, g.kids[u][i]) : i \in 1..Len(g.kids[u]) }

\* logseq.Editor.removeBlock: the block goes with its subtree; removing a
\* block that does not exist changes nothing
RemoteDelete(g, u) ==
    IF u \notin DOMAIN g.text THEN g
    ELSE LET gone == Subtree(g, u)
             Keep(x) == x \notin gone
         IN  [kids |-> [r \in DOMAIN g.kids \ gone |-> SelectSeq(g.kids[r], Keep)],
              text |-> [r \in DOMAIN g.text \ gone |-> g.text[r]]]

\* logseq.Editor.insertBlock: block u with the content becomes the last child
\* of the parent (the first one with before = true)
RemoteInsert(g, parent, content, u, before) ==
    [kids |-> [r \in DOMAIN g.kids \cup {u} |->
                  IF r = u THEN <<>>
                  ELSE IF r = parent
                  THEN IF before THEN <<u>> \o g.kids[r] ELSE Append(g.kids[r], u)
                  ELSE g.kids[r]],
     text |-> [r \in DOMAIN g.text \cup {u} |->
                  IF r = u THEN content ELSE g.text[r]]]

\* the descriptor the remote returns for block u, with its children nested
RECURSIVE Descriptor(_, _)
Descriptor(g, u) ==
    JObj([uuid |-> JStr(u),
          content |-> JStr(g.text[u]),
          children |-> JList([i \in 1..Len(g.kids[u]) |->
                                Descriptor(g, g.kids[u][i])])])

\* the descriptors of the children of ref, in the remote order
Descriptors(g, ref) ==
    IF ref \in DOMAIN g.kids
    THEN [i \in 1..Len(g.kids[ref]) |-> Descriptor(g, g.kids[ref][i])]
    ELSE <<>>

\* descriptor d with its uuid replaced by a number
NoStringUuid(d) == JObj([d.f EXCEPT !["uuid"] = JNum(7)])

\* what getPageBlocksTree / getBlockChildrenTree may answer for ref: the
\* shapes of a well-behaved remote, and with `odd` the malformed ones too
FetchPayloads(g, ref, odd) ==
    LET ds == Descriptors(g, ref)
    IN  {JList(ds), JObj([children |-> JList(ds)])}
        \cup (IF ds = <<>>
              THEN {JNull, JObj(<<>>), JObj([children |-> JNull])} ELSE {})
        \cup (IF odd
              THEN {JNum(5), JStr("oops"), JObj([children |-> JNum(5)])}
                   \cup {JList([ds EXCEPT ![k] = NoStringUuid(ds[k])]) :
                            k \in 1..Len(ds)}
                   \cup {JList([ds EXCEPT ![k] = JNum(7)]) : k \in 1..Len(ds)}
              ELSE {})

\* what insertBlock may answer for the new block u
InsertResults(u, odd) ==
    {JObj([uuid |-> JStr(u), content |-> JStr("")])}
    \cup (IF odd
          THEN {JStr(u), JObj([id |-> JStr(u)]),
                JObj([block |-> JObj([uuid |-> JStr(u)])]),
                JObj([uuid |-> JNum(7), block |-> JObj([id |-> JStr(u)])]),
                JNull, JBool(TRUE), JObj([uuid |-> JNum(7)]), JStr("")}
          ELSE {})

(***************************************************************************)
(* The decoded responses (response.json()) the two helpers are tried on,   *)
(* one by one: _get_children_tree after its remote call, and               *)
(* _extract_block_uuid.                                                    *)
(***************************************************************************)
\* the sequences of exactly n items of S
RECURSIVE Tuples(_, _)
Tuples(S, n) ==
    IF n = 0 THEN {<<>>}
    ELSE {<<x>> \o xs : x \in S, xs \in Tuples(S, n - 1)}

\* the objects that have some of the keys of opts, a key k with a value of
\* opts[k]
ObjectsOver(opts) ==
    UNION { { JObj(g) : g \in { h \in [ks -> UNION {opts[k] : k \in ks}] :
                                  \A k \in ks : h[k] \in opts[k] } } :
            ks \in SUBSET DOMAIN opts }

\* the values that are neither object nor array
Scalars ==
    {JNull, JBool(TRUE), JBool(FALSE), JNum(0), JNum(7), JStr(""), JStr("s")}

\* arrays of block descriptors, in some remote order
DescriptorLists ==
    { JList(xs) : xs \in UNION { Tuples({JObj([uuid |-> JStr("x")]),
                                          JObj([uuid |-> JStr("y")])}, n) :
                                  n \in 0..MaxListLen } }

\* what a tree fetch may decode to
TreePayloads ==
    Scalars \cup DescriptorLists
    \cup ObjectsOver([children |-> Scalars \cup DescriptorLists \cup {JObj(<<>>)},
                      uuid |-> {JStr("x")}])

\* what an insert may decode to
InsertPayloads ==
    Scalars \cup {JList(<<>>), JList(<<JStr("a")>>)}
    \cup ObjectsOver(
            [uuid |-> {JNull, JNum(7), JStr(""), JStr("a")},
             id |-> {JNum(7), JStr("b")},
             block |-> {JNull, JStr("c"), JList(<<JStr("c")>>)}
                       \cup ObjectsOver([uuid |-> {JNum(7), JStr("c")},
                                         id |-> {JNum(7), JStr("d")}])])

JsonPayloads == TreePayloads \cup InsertPayloads

(***************************************************************************)
(* State.                                                                  *)
(***************************************************************************)
VARIABLES
    graph,              \* the remote graph
    graph0,             \* the remote graph before the first tool call
    nextId,             \* the number of the next uuid the remote assigns
    flaky,              \* whether the remote may fail or answer oddly
    pc,                 \* where each invocation stands
    args,               \* replace_children's arguments
    existing_children,  \* its local existing_children
    di,                 \* position of `for child in reversed(...)`
    bi,                 \* position of `for block in blocks`
    inserted,           \* its local inserted (the value returned)
    stack,              \* the frames of _insert_block_tree, innermost last
    err,                \* the exception that left replace_children
    calls,              \* the remote calls issued, in order
    warnings,           \* the warnings logged
    report,             \* what run_tool made of each tool call
    payload,            \* a decoded JSON response handed to a helper
    answer              \* what the helper made of it

vars == <<graph, graph0, nextId, flaky, pc, args, existing_children, di, bi,
          inserted, stack, err, calls, warnings, report, payload, answer>>

\* run_tool has not finished; the helper has not been called
NoReport == [kind |-> "none"]
NoAnswer == [of |-> "none"]

NoArgs == [parent |-> "", blocks |-> <<>>, is_page |-> FALSE,
           delete_existing |-> FALSE]

InitLocals ==
    /\ nextId = 1
    /\ args = [p \in Procs |-> NoArgs]
    /\ existing_children = [p \in Procs |-> JList(<<>>)]
    /\ di = [p \in Procs |-> 0]
    /\ bi = [p \in Procs |-> 0]
    /\ inserted = [p \in Procs |-> <<>>]
    /\ stack = [p \in Procs |-> <<>>]
    /\ err = [p \in Procs |-> "none"]
    /\ calls = [p \in Procs |-> <<>>]
    /\ warnings = [p \in Procs |-> 0]
    /\ report = [p \in Procs |-> NoReport]

\* one tool call, against a remote that may misbehave
Init ==
    /\ \E n \in 0..MaxExisting : graph = InitialGraph(n)
    /\ graph0 = graph
    /\ flaky = TRUE
    /\ pc = [p \in Procs |-> IF p = 1 THEN "idle" ELSE "off"]
    /\ InitLocals
    /\ payload = JNull
    /\ answer = NoAnswer

\* two tool calls at once, against a well-behaved remote
InitConc ==
    /\ \E n \in 0..MaxExisting : graph = InitialGraph(n)
    /\ graph0 = graph
    /\ flaky = FALSE
    /\ pc = [p \in Procs |-> "idle"]
    /\ InitLocals
    /\ payload = JNull
    /\ answer = NoAnswer

\* one helper call on a decoded response, no tool call
InitShapes ==
    /\ graph = InitialGraph(0)
    /\ graph0 = graph
    /\ flaky = FALSE
    /\ pc = [p \in Procs |-> "off"]
    /\ InitLocals
    /\ payload \in JsonPayloads
    /\ answer = NoAnswer

(***************************************************************************)
(* The remote calls, as they are logged in `calls`.                        *)
(***************************************************************************)
\* the method _get_children_tree selects
FetchMethod(is_page) ==
    IF is_page THEN "logseq.Editor.getPageBlocksTree"
    ELSE "logseq.Editor.getBlockChildrenTree"

FetchCall(parent, is_page, outcome) ==
    [method |-> FetchMethod(is_page), args |-> <<parent>>, outcome |-> outcome]

DeleteCall(uuid, outcome) ==
    [method |-> "logseq.Editor.removeBlock", args |-> <<uuid>>,
     outcome |-> outcome]

\* the options bundle of insert_block
InsertBlockOptions(is_page_block, before, custom_uuid) ==
    [isPageBlock |-> is_page_block, before |-> before,
     customUUID |-> custom_uuid]

\* mutation of InsertTreeOptions: the blocks are inserted with before = true
PrependOptions(f) ==
    InsertBlockOptions(f.is_page_block, TRUE, CustomOf(f.block_data))

\* the options _insert_block_tree passes for a frame: before is left at its
\* default
InsertTreeOptions(f) ==
    InsertBlockOptions(f.is_page_block, FALSE, CustomOf(f.block_data))

\* new_uuid is what _extract_block_uuid made of the result (None after an
\* error)
InsertCall(parent, content, options, outcome, new_uuid) ==
    [method |-> "logseq.Editor.insertBlock", parent |-> parent,
     content |-> content, options |-> options, outcome |-> outcome,
     new_uuid |-> new_uuid]

IsFetch(c) == c.method \in {FetchMethod(TRUE), FetchMethod(FALSE)}
IsDelete(c) == c.method = "logseq.Editor.removeBlock"
IsInsert(c) == c.method = "logseq.Editor.insertBlock"

(***************************************************************************)
(* Steps of one invocation.                                                *)
(***************************************************************************)
\* a frame of _insert_block_tree
Frame(parent, block_data, is_page_block) ==
    [parent |-> parent, block_data |-> block_data,
     is_page_block |-> is_page_block, new_uuid |-> JNull, ci |-> 1]

\* mutation of Raise: the exception is swallowed and the step is tried again
RetryInstead(p, e) == UNCHANGED <<pc, err, stack>>

\* mutation of Raise: the invalid-spec error is caught and replace_children
\* returns what it has collected
SwallowInvalid(p, e) ==
    /\ pc' = [pc EXCEPT ![p] = IF e = "ValueError" THEN "returned" ELSE "raised"]
    /\ err' = [err EXCEPT ![p] = IF e = "ValueError" THEN @ ELSE e]
    /\ stack' = [stack EXCEPT ![p] = <<>>]

\* an exception leaves replace_children: nothing catches it on the way
Raise(p, e) ==
    /\ pc' = [pc EXCEPT ![p] = "raised"]
    /\ err' = [err EXCEPT ![p] = e]
    /\ stack' = [stack EXCEPT ![p] = <<>>]

\* mutation of FirstPhase: the children are never fetched
NeverFetch(delete_existing) == "insert_loop"

\* mutation of FirstPhase: the children are fetched and deleted whatever
\* delete_existing says
AlwaysDelete(delete_existing) == "fetch"

\* `if delete_existing:` decides where replace_children begins
FirstPhase(delete_existing) ==
    IF delete_existing THEN "fetch" ELSE "insert_loop"

\* mutation of Reversed: the children are visited in fetch order
NotReversed(xs) == xs

\* mutation of Reversed: the walk goes down into the children listed inside
\* the fetched descriptors, deepest blocks first
WithGrandchildren(xs) ==
    LET RECURSIVE Below(_)
        Below(i) ==
            IF i > Len(xs) THEN <<>>
            ELSE (IF xs[i].t = "obj" /\ Get(xs[i], "children").t = "list"
                  THEN Get(xs[i], "children").xs ELSE <<>>) \o Below(i + 1)
        all == xs \o Below(1)
    IN  [i \in 1..Len(all) |-> all[Len(all) + 1 - i]]

\* reversed(xs)
Reversed(xs) == [i \in 1..Len(xs) |-> xs[Len(xs) + 1 - i]]

\* the entry of replace_children(parent, blocks, is_page, delete_existing)
ReplaceChildren(p, blocks, is_page, delete_existing) ==
    /\ args' = [args EXCEPT ![p] =
                  [parent |-> Target, blocks |-> blocks, is_page |-> is_page,
                   delete_existing |-> delete_existing]]
    /\ inserted' = [inserted EXCEPT ![p] = <<>>]
    /\ bi' = [bi EXCEPT ![p] = 1]
    /\ pc' = [pc EXCEPT ![p] = FirstPhase(delete_existing)]
    /\ UNCHANGED <<graph, graph0, nextId, flaky, existing_children, di, stack,
                   err, calls, warnings>>
    /\ UNCHANGED <<report, payload, answer>>

\* mutation of Begin: a tool call waits until no other one is under way
BeginWhenAlone(p, blocks, is_page, delete_existing) ==
    /\ pc[p] = "idle"
    /\ \A q \in Procs \ {p} : pc[q] \in {"idle", "off", "returned", "raised"}
    /\ ReplaceChildren(p, blocks, is_page, delete_existing)

\* mutation of Begin: the whole forest is validated before anything is sent
BeginValidated(p, blocks, is_page, delete_existing) ==
    /\ pc[p] = "idle"
    /\ IF \E k \in 1..Len(PreOrder(blocks)) : MissingContent(PreOrder(blocks)[k])
       THEN /\ args' = [args EXCEPT ![p] =
                         [parent |-> Target, blocks |-> blocks,
                          is_page |-> is_page,
                          delete_existing |-> delete_existing]]
            /\ Raise(p, "ValueError")
            /\ UNCHANGED <<graph, graph0, nextId, flaky, existing_children,
                           di, bi, inserted, calls, warnings, report, payload,
                           answer>>
       ELSE ReplaceChildren(p, blocks, is_page, delete_existing)

\* the tool handler calls api.replace_children on a client of its own, as
\* soon as the tool call arrives: nothing waits for another tool call
Begin(p, blocks, is_page, delete_existing) ==
    /\ pc[p] = "idle"
    /\ ReplaceChildren(p, blocks, is_page, delete_existing)

\* a single tool call, with any arguments
Start(p) ==
    /\ pc[p] = "idle"
    /\ flaky
    /\ \E blocks \in BlockForests(MaxNodes), is_page \in BOOLEAN,
          delete_existing \in BOOLEAN :
           Begin(p, blocks, is_page, delete_existing)

\* one of two concurrent tool calls, with a small well-formed forest
StartConc(p) ==
    /\ pc[p] = "idle"
    /\ ~flaky
    /\ \E n \in 0..MaxConcNodes, is_page \in BOOLEAN,
          delete_existing \in BOOLEAN :
           \E blocks \in ForestsFrom(n, 1, 0, 0) :
               Begin(p, blocks, is_page, delete_existing)

\* the first of two tool calls made one after the other: any well-formed
\* forest without custom uuid, against a well-behaved remote
CallOnce ==
    /\ pc[1] = "idle"
    /\ pc[2] = "idle"
    /\ ~flaky
    /\ \E n \in 0..MaxNodes, is_page \in BOOLEAN, delete_existing \in BOOLEAN :
           \E blocks \in ForestsFrom(n, 1, 0, 0) :
               Begin(1, blocks, is_page, delete_existing)

\* the second one: the same arguments, once the first call has returned
CallAgain ==
    /\ pc[1] = "returned"
    /\ pc[2] = "idle"
    /\ Begin(2, args[1].blocks, args[1].is_page, args[1].delete_existing)

\* existing_children = self._get_children_tree(parent, is_page=is_page)
GetChildrenTree(p) ==
    /\ pc[p] = "fetch"
    /\ \/ \E e \in RemoteErrors :
            /\ flaky
            /\ calls' = [calls EXCEPT ![p] =
                   Append(@, FetchCall(args[p].parent, args[p].is_page, e))]
            /\ Raise(p, e)
            /\ UNCHANGED <<existing_children, di, warnings>>
       \/ \E tree \in FetchPayloads(graph, args[p].parent, flaky) :
            LET got == ChildrenOfPayload(tree)
            IN  /\ calls' = [calls EXCEPT ![p] =
                       Append(@, FetchCall(args[p].parent, args[p].is_page, "ok"))]
                /\ existing_children' = [existing_children EXCEPT ![p] = got.value]
                /\ warnings' = [warnings EXCEPT ![p] =
                                   IF got.warned THEN @ + 1 ELSE @]
                /\ di' = [di EXCEPT ![p] = 1]
                /\ pc' = [pc EXCEPT ![p] = "delete_loop"]
                /\ UNCHANGED <<err, stack>>
    /\ UNCHANGED <<graph, graph0, nextId, flaky, args, bi, inserted>>
    /\ UNCHANGED <<report, payload, answer>>

\* one turn of `for child in reversed(existing_children)`: its di-th item
DeleteLoop(p) ==
    /\ pc[p] = "delete_loop"
    /\ LET ec == existing_children[p]
       IN  IF ec.t \in {"num", "bool"}
           THEN \* reversed() of a value that is no sequence
                /\ Raise(p, "TypeError")
                /\ UNCHANGED <<graph, di, calls>>
           ELSE IF ec.t \in {"str", "obj"}
           THEN \* the items are characters or keys: they have no .get
                /\ Raise(p, "AttributeError")
                /\ UNCHANGED <<graph, di, calls>>
           ELSE IF di[p] > Len(ec.xs)
           THEN \* the loop is over
                /\ pc' = [pc EXCEPT ![p] = "insert_loop"]
                /\ UNCHANGED <<graph, di, calls, err, stack>>
           ELSE LET child == Reversed(ec.xs)[di[p]]
                    uuid == Get(child, "uuid")
                IN  IF child.t # "obj"
                    THEN \* child.get on a value that is no dict
                         /\ Raise(p, "AttributeError")
                         /\ UNCHANGED <<graph, di, calls>>
                    ELSE IF uuid.t # "str"
                    THEN /\ di' = [di EXCEPT ![p] = @ + 1]
                         /\ UNCHANGED <<graph, calls, pc, err, stack>>
                    ELSE \/ \E e \in RemoteErrors :
                              /\ flaky
                              /\ calls' = [calls EXCEPT ![p] =
                                     Append(@, DeleteCall(uuid.s, e))]
                              /\ Raise(p, e)
                              /\ UNCHANGED <<graph, di>>
                         \/ /\ calls' = [calls EXCEPT ![p] =
                                   Append(@, DeleteCall(uuid.s, "ok"))]
                            /\ graph' = RemoteDelete(graph, uuid.s)
                            /\ di' = [di EXCEPT ![p] = @ + 1]
                            /\ UNCHANGED <<pc, err, stack>>
    /\ UNCHANGED <<graph0, nextId, flaky, args, existing_children, bi, inserted,
                   warnings>>
    /\ UNCHANGED <<report, payload, answer>>

\* mutation of Collect: the value is appended without the test
CollectAlways(list, new_uuid) ==
    Append(list, IF new_uuid.t = "str" THEN new_uuid.s ELSE "None")

\* `if new_uuid: inserted.append(new_uuid)`
Collect(list, new_uuid) ==
    IF Truthy(new_uuid) THEN Append(list, new_uuid.s) ELSE list

\* mutation of ReturnUuid: a None result ends the whole invocation, which
\* returns what it has collected so far
ReturnAndStop(p, v) ==
    IF v = JNull
    THEN /\ stack' = [stack EXCEPT ![p] = <<>>]
         /\ pc' = [pc EXCEPT ![p] = "returned"]
         /\ UNCHANGED <<inserted, bi>>
    ELSE IF Len(stack[p]) = 1
    THEN /\ stack' = [stack EXCEPT ![p] = <<>>]
         /\ inserted' = [inserted EXCEPT ![p] = Collect(@, v)]
         /\ bi' = [bi EXCEPT ![p] = @ + 1]
         /\ pc' = [pc EXCEPT ![p] = "insert_loop"]
    ELSE /\ stack' = [stack EXCEPT ![p] =
                [SubSeq(@, 1, Len(@) - 1) EXCEPT ![Len(@) - 1].ci = @ + 1]]
         /\ pc' = [pc EXCEPT ![p] = "child_loop"]
         /\ UNCHANGED <<inserted, bi>>

\* the innermost _insert_block_tree returns v: to replace_children's loop
\* over blocks, or to the caller's loop over children, which drops the value
ReturnUuid(p, v) ==
    IF Len(stack[p]) = 1
    THEN /\ stack' = [stack EXCEPT ![p] = <<>>]
         /\ inserted' = [inserted EXCEPT ![p] = Collect(@, v)]
         /\ bi' = [bi EXCEPT ![p] = @ + 1]
         /\ pc' = [pc EXCEPT ![p] = "insert_loop"]
    ELSE /\ stack' = [stack EXCEPT ![p] =
                [SubSeq(@, 1, Len(@) - 1) EXCEPT ![Len(@) - 1].ci = @ + 1]]
         /\ pc' = [pc EXCEPT ![p] = "child_loop"]
         /\ UNCHANGED <<inserted, bi>>

\* one turn of `for block in blocks`: call _insert_block_tree for the block
\* at bi, or `return inserted` when the loop is over
RootLoop(p) ==
    /\ pc[p] = "insert_loop"
    /\ IF bi[p] <= Len(args[p].blocks)
       THEN /\ stack' = [stack EXCEPT ![p] =
                   <<Frame(args[p].parent, args[p].blocks[bi[p]], args[p].is_page)>>]
            /\ pc' = [pc EXCEPT ![p] = "insert_tree"]
       ELSE /\ pc' = [pc EXCEPT ![p] = "returned"]
            /\ UNCHANGED stack
    /\ UNCHANGED <<graph, graph0, nextId, flaky, args, existing_children, di,
                   bi, inserted, err, calls, warnings>>
    /\ UNCHANGED <<report, payload, answer>>

\* the uuid the remote gives the block of an insertBlock call
AssignedUuid(options) ==
    IF options.customUUID.t = "str" THEN options.customUUID.s
    ELSE FreshUuid(nextId)

\* _insert_block_tree up to its loop: the content check, insert_block, and
\* _extract_block_uuid on the result
InsertBlockTree(p) ==
    /\ pc[p] = "insert_tree"
    /\ LET f == stack[p][Len(stack[p])]
           options == InsertTreeOptions(f)
           u == AssignedUuid(options)
       IN  IF MissingContent(f.block_data)
           THEN /\ Raise(p, "ValueError")
                /\ UNCHANGED <<graph, nextId, calls, warnings, inserted, bi>>
           ELSE \/ \E e \in RemoteErrors :
                     /\ flaky
                     /\ calls' = [calls EXCEPT ![p] =
                            Append(@, InsertCall(f.parent, ContentOf(f.block_data),
                                                 options, e, JNull))]
                     /\ Raise(p, e)
                     /\ UNCHANGED <<graph, nextId, warnings, inserted, bi>>
                \/ \E result \in IF f.parent \in DOMAIN graph.kids
                                 THEN InsertResults(u, flaky) ELSE {JNull} :
                     LET new_uuid == ExtractBlockUuid(result)
                     IN  /\ calls' = [calls EXCEPT ![p] =
                                Append(@, InsertCall(f.parent, ContentOf(f.block_data),
                                                     options, "ok", new_uuid))]
                         /\ IF f.parent \in DOMAIN graph.kids
                            THEN /\ graph' = RemoteInsert(graph, f.parent,
                                        ContentOf(f.block_data), u, options.before)
                                 /\ nextId' = nextId + 1
                            ELSE UNCHANGED <<graph, nextId>>
                         /\ IF new_uuid = JNull
                            THEN /\ warnings' = [warnings EXCEPT ![p] = @ + 1]
                                 /\ ReturnUuid(p, JNull)
                            ELSE /\ stack' = [stack EXCEPT ![p][Len(stack[p])].new_uuid =
                                                 new_uuid]
                                 /\ pc' = [pc EXCEPT ![p] = "child_loop"]
                                 /\ UNCHANGED <<warnings, inserted, bi>>
                         /\ UNCHANGED err
    /\ UNCHANGED <<graph0, flaky, args, existing_children, di>>
    /\ UNCHANGED <<report, payload, answer>>

\* mutation of ChildFrame: the child is inserted under the parent of its
\* parent spec instead of under the new block
SiblingFrame(f) ==
    Frame(f.parent, ChildSpecs(f.block_data)[f.ci], FALSE)

\* mutation of ChildFrame: the caller's is_page_block is handed down
ChildKeepsFlag(f) ==
    Frame(f.new_uuid.s, ChildSpecs(f.block_data)[f.ci], f.is_page_block)

\* the frame of the recursive call for the child at ci of frame f
ChildFrame(f) ==
    Frame(f.new_uuid.s, ChildSpecs(f.block_data)[f.ci], FALSE)

\* one turn of `for child in block_data.get("children", []) or []`: the
\* recursive call for the child at ci, or `return new_uuid`
ChildLoop(p) ==
    /\ pc[p] = "child_loop"
    /\ LET f == stack[p][Len(stack[p])]
       IN  IF f.ci <= Len(ChildSpecs(f.block_data))
           THEN /\ stack' = [stack EXCEPT ![p] =
                       Append(@, ChildFrame(f))]
                /\ pc' = [pc EXCEPT ![p] = "insert_tree"]
                /\ UNCHANGED <<inserted, bi>>
           ELSE ReturnUuid(p, f.new_uuid)
    /\ UNCHANGED <<graph, graph0, nextId, flaky, args, existing_children, di,
                   err, calls, warnings>>
    /\ UNCHANGED <<report, payload, answer>>

\* the two argument checks run_tool makes before anything else
ArgumentErrors ==
    {"target argument required", "blocks argument must be an array"}

\* run_tool called with a bundle that fails one of its checks: the
\* RuntimeError leaves run_tool and replace_children is never called
RejectArgs(p) ==
    /\ pc[p] = "idle"
    /\ \E message \in ArgumentErrors :
          report' = [report EXCEPT ![p] =
                        [kind |-> "raised", error |-> "RuntimeError",
                         message |-> message]]
    /\ pc' = [pc EXCEPT ![p] = "rejected"]
    /\ UNCHANGED <<graph, graph0, nextId, flaky, args, existing_children, di,
                   bi, inserted, stack, err, calls, warnings, payload, answer>>

\* the lines of the summary run_tool returns, each a label and a value
ToolSummary(target, ids) ==
    <<[label |-> "Replaced children under", value |-> target],
      [label |-> "Inserted blocks:", value |-> ToString(Len(ids))]>>
    \o (IF ids # <<>>
        THEN <<[label |-> "First inserted UUID:", value |-> ids[1]]>>
        ELSE <<>>)

\* run_tool after api.replace_children: the summary of what was returned,
\* or, the call standing outside any try, the exception as it was raised
RunToolEnds(p) ==
    /\ pc[p] \in {"returned", "raised"}
    /\ report[p] = NoReport
    /\ report' = [report EXCEPT ![p] =
                     IF pc[p] = "returned"
                     THEN [kind |-> "text",
                           lines |-> ToolSummary(args[p].parent, inserted[p])]
                     ELSE [kind |-> "raised", error |-> err[p]]]
    /\ UNCHANGED <<graph, graph0, nextId, flaky, pc, args, existing_children,
                   di, bi, inserted, stack, err, calls, warnings, payload,
                   answer>>

Next ==
    \/ \E p \in Procs : Start(p)
    \/ \E p \in Procs : GetChildrenTree(p)
    \/ \E p \in Procs : DeleteLoop(p)
    \/ \E p \in Procs : RootLoop(p)
    \/ \E p \in Procs : InsertBlockTree(p)
    \/ \E p \in Procs : ChildLoop(p)

NextConc ==
    \/ \E p \in Procs : StartConc(p)
    \/ \E p \in Procs : GetChildrenTree(p)
    \/ \E p \in Procs : DeleteLoop(p)
    \/ \E p \in Procs : RootLoop(p)
    \/ \E p \in Procs : InsertBlockTree(p)
    \/ \E p \in Procs : ChildLoop(p)

\* the part of _get_children_tree that follows response.json()
NormaliseTree ==
    /\ answer = NoAnswer
    /\ answer' = [of |-> "_get_children_tree",
                  value |-> ChildrenOfPayload(payload).value,
                  warned |-> ChildrenOfPayload(payload).warned]
    /\ UNCHANGED <<graph, graph0, nextId, flaky, pc, args, existing_children,
                   di, bi, inserted, stack, err, calls, warnings, report,
                   payload>>

\* _extract_block_uuid(result)
ExtractUuid ==
    /\ answer = NoAnswer
    /\ answer' = [of |-> "_extract_block_uuid",
                  value |-> ExtractBlockUuid(payload)]
    /\ UNCHANGED <<graph, graph0, nextId, flaky, pc, args, existing_children,
                   di, bi, inserted, stack, err, calls, warnings, report,
                   payload>>

NextShapes == NormaliseTree \/ ExtractUuid

\* a single tool call from its arrival at run_tool to what run_tool gives
\* back to its caller
NextTool ==
    \/ \E p \in Procs : RejectArgs(p)
    \/ \E p \in Procs : Start(p)
    \/ \E p \in Procs : GetChildrenTree(p)
    \/ \E p \in Procs : DeleteLoop(p)
    \/ \E p \in Procs : RootLoop(p)
    \/ \E p \in Procs : InsertBlockTree(p)
    \/ \E p \in Procs : ChildLoop(p)
    \/ \E p \in Procs : RunToolEnds(p)

\* two tool calls with the same arguments, in sequence
NextTwice ==
    \/ CallOnce
    \/ CallAgain
    \/ \E p \in Procs : GetChildrenTree(p)
    \/ \E p \in Procs : DeleteLoop(p)
    \/ \E p \in Procs : RootLoop(p)
    \/ \E p \in Procs : InsertBlockTree(p)
    \/ \E p \in Procs : ChildLoop(p)

Spec == Init /\ [][Next]_vars

SpecTwice == InitConc /\ [][NextTwice]_vars

SpecTool == Init /\ [][NextTool]_vars

SpecShapes == InitShapes /\ [][NextShapes]_vars

SpecConc == InitConc /\ [][NextConc]_vars

(***************************************************************************)
(* Vocabulary of the properties.                                           *)
(***************************************************************************)
Started(p) == pc[p] \notin {"idle", "off"}

InsertCalls(p) == SelectSeq(calls[p], IsInsert)
DeleteCalls(p) == SelectSeq(calls[p], IsDelete)
FetchCalls(p) == SelectSeq(calls[p], IsFetch)

\* the entries of a fetched list that are descriptors with a string uuid
HasStringUuid(d) == d.t = "obj" /\ Get(d, "uuid").t = "str"

\* their uuids, in fetch order
StringUuids(ec) ==
    IF ec.t = "list"
    THEN LET ds == SelectSeq(ec.xs, HasStringUuid)
         IN  [i \in 1..Len(ds) |-> Get(ds[i], "uuid").s]
    ELSE <<>>

(***************************************************************************)
(* C1: with delete_existing = true, the delete calls of an invocation go   *)
(* through the fetched children from the last one to the first one, and    *)
(* all of them are issued before the invocation's first insert call.       *)
(***************************************************************************)
C1_DeletesReversedBeforeInserts ==
    \A p \in Procs :
        args[p].delete_existing =>
            LET ids == StringUuids(existing_children[p])
                dels == DeleteCalls(p)
                n == Len(ids)
            IN  /\ Len(dels) <= n
                /\ \A k \in 1..Len(dels) : dels[k].args[1] = ids[n + 1 - k]
                /\ \A i, j \in 1..Len(calls[p]) :
                      i < j => ~(IsInsert(calls[p][i]) /\ IsDelete(calls[p][j]))
                /\ InsertCalls(p) # <<>> => Len(dels) = n

C1_Witness ==
    \E p \in Procs :
        /\ args[p].delete_existing
        /\ Len(StringUuids(existing_children[p])) >= 2
        /\ Len(DeleteCalls(p)) >= 2
        /\ InsertCalls(p) # <<>>

(***************************************************************************)
(* C8: with delete_existing = false an invocation issues no delete call,   *)
(* whatever children the target has.                                       *)
(***************************************************************************)
C8_NoDeleteWithoutDeleteExisting ==
    \A p \in Procs :
        (Started(p) /\ ~args[p].delete_existing) => DeleteCalls(p) = <<>>

C8_Witness ==
    \E p \in Procs :
        /\ pc[p] = "returned"
        /\ ~args[p].delete_existing
        /\ Len(graph0.kids[Target]) >= 2
        /\ InsertCalls(p) # <<>>

\* the contents of a forest of block specs, with their nesting and order
RECURSIVE SpecForest(_)
SpecForest(forest) ==
    [i \in 1..Len(forest) |->
        [content |-> ContentOf(forest[i]),
         children |-> SpecForest(ChildSpecs(forest[i]))]]

\* the contents of the blocks below ref in graph g, in the same form
RECURSIVE GraphForest(_, _)
GraphForest(g, ref) ==
    [i \in 1..Len(g.kids[ref]) |->
        [content |-> g.text[g.kids[ref][i]],
         children |-> GraphForest(g, g.kids[ref][i])]]

\* no insert call of p came back with a result without identifier
NoExtractionFailure(p) ==
    \A i \in 1..Len(calls[p]) :
        IsInsert(calls[p][i]) => calls[p][i].new_uuid # JNull

\* the fetch of p listed every child the target had, each with a string uuid
FetchedAllChildren(p) ==
    StringUuids(existing_children[p]) = graph0.kids[Target]

(***************************************************************************)
(* C2: when replace_children(parent, blocks, delete_existing = true)       *)
(* returns, the fetch having listed every existing child with a string     *)
(* uuid and every insert having yielded an identifier, the children of the *)
(* parent are the forest of blocks (contents, nesting, sibling order) and  *)
(* no block that existed before is left.                                   *)
(***************************************************************************)
C2_ChildrenAreTheNewForest ==
    \A p \in Procs :
        ( /\ pc[p] = "returned"
          /\ args[p].delete_existing
          /\ FetchedAllChildren(p)
          /\ NoExtractionFailure(p) )
        => /\ GraphForest(graph, args[p].parent) = SpecForest(args[p].blocks)
           /\ DOMAIN graph.text \cap DOMAIN graph0.text = {}

C2_Witness ==
    \E p \in Procs :
        /\ pc[p] = "returned"
        /\ args[p].delete_existing
        /\ FetchedAllChildren(p)
        /\ NoExtractionFailure(p)
        /\ Len(graph0.kids[Target]) = 2
        /\ Len(args[p].blocks) = 2
        /\ ChildSpecs(args[p].blocks[1]) # <<>>
        /\ GraphForest(graph, Target) = SpecForest(args[p].blocks)

\* for each spec of a forest in pre-order, the pre-order number of its
\* parent spec (par for the roots); k is the number of the first spec
RECURSIVE ParentsFrom(_, _, _)
ParentsFrom(forest, par, k) ==
    IF forest = <<>> THEN <<>>
    ELSE LET below == ParentsFrom(ChildSpecs(Head(forest)), k, k + 1)
         IN  <<par>> \o below
             \o ParentsFrom(Tail(forest), par, k + 1 + Len(below))

\* the pre-order number of the spec of p's forest with content c, 0 if none
NodeOfContent(p, c) ==
    LET nodes == PreOrder(args[p].blocks)
        hits == {k \in 1..Len(nodes) :
                    "content" \in DOMAIN nodes[k] /\ nodes[k]["content"] = c}
    IN  IF hits = {} THEN 0 ELSE CHOOSE k \in hits : TRUE

\* the pre-order number of the spec the i-th insert call of p was made for
NodeOfInsert(p, i) == NodeOfContent(p, InsertCalls(p)[i].content)

(***************************************************************************)
(* C3: the insert calls of an invocation follow the pre-order of the input *)
(* forest (a spec before its children, children left to right, a subtree   *)
(* before the next sibling); a root spec is inserted under the target and  *)
(* a child spec under the identifier extracted for its parent spec; when   *)
(* no extraction fails, every spec of the forest is inserted.              *)
(***************************************************************************)
C3_InsertsInPreOrder ==
    \A p \in Procs :
        LET ins == InsertCalls(p)
            par == ParentsFrom(args[p].blocks, 0, 1)
        IN  /\ \A i \in 1..Len(ins) : NodeOfInsert(p, i) # 0
            /\ \A i, j \in 1..Len(ins) :
                  i < j => NodeOfInsert(p, i) < NodeOfInsert(p, j)
            /\ \A j \in 1..Len(ins) :
                  IF par[NodeOfInsert(p, j)] = 0
                  THEN ins[j].parent = args[p].parent
                  ELSE \E i \in 1..(j - 1) :
                          /\ NodeOfInsert(p, i) = par[NodeOfInsert(p, j)]
                          /\ ins[i].new_uuid = JStr(ins[j].parent)
            /\ (pc[p] = "returned" /\ NoExtractionFailure(p))
                  => Len(ins) = Len(par)

C3_Witness ==
    \E p \in Procs :
        /\ pc[p] = "returned"
        /\ NoExtractionFailure(p)
        /\ Len(InsertCalls(p)) = 3
        /\ ParentsFrom(args[p].blocks, 0, 1) = <<0, 1, 0>>

\* the insert calls of p made for root specs, in the order of the calls
RootInserts(p) ==
    LET ins == InsertCalls(p)
        par == ParentsFrom(args[p].blocks, 0, 1)
        roots == {i \in 1..Len(ins) : par[NodeOfInsert(p, i)] = 0}
        RECURSIVE Pick(_)
        Pick(i) == IF i > Len(ins) THEN <<>>
                   ELSE (IF i \in roots THEN <<ins[i]>> ELSE <<>>) \o Pick(i + 1)
    IN  Pick(1)

(***************************************************************************)
(* C4: for a non-empty forest and no extraction failure, the list          *)
(* replace_children returns has one entry per root spec, the i-th entry    *)
(* being the identifier extracted from the insert of the i-th root spec.   *)
(***************************************************************************)
C4_OneIdentifierPerRoot ==
    \A p \in Procs :
        ( /\ pc[p] = "returned"
          /\ args[p].blocks # <<>>
          /\ NoExtractionFailure(p) )
        => /\ Len(inserted[p]) = Len(args[p].blocks)
           /\ Len(RootInserts(p)) = Len(args[p].blocks)
           /\ \A i \in 1..Len(inserted[p]) :
                 JStr(inserted[p][i]) = RootInserts(p)[i].new_uuid

\* the same with the empty string counted as an extraction failure
C4_NonEmptyIdentifiers ==
    \A p \in Procs :
        ( /\ pc[p] = "returned"
          /\ args[p].blocks # <<>>
          /\ \A i \in 1..Len(calls[p]) :
                IsInsert(calls[p][i]) => Truthy(calls[p][i].new_uuid) )
        => /\ Len(inserted[p]) = Len(args[p].blocks)
           /\ Len(RootInserts(p)) = Len(args[p].blocks)
           /\ \A i \in 1..Len(inserted[p]) :
                 JStr(inserted[p][i]) = RootInserts(p)[i].new_uuid

\* the calls of p that the remote carried out
Applied(p, i) == calls[p][i].outcome = "ok"

(***************************************************************************)
(* C5: when a remote call of replace_children fails with a remote or       *)
(* transport error, replace_children raises that error, the failed call is *)
(* the last call the invocation ever issues, and what the earlier calls    *)
(* did stays in the remote graph: the deleted blocks are gone, the         *)
(* inserted blocks are there.                                              *)
(***************************************************************************)
C5_RemoteErrorAborts ==
    \A p \in Procs :
        \A i \in 1..Len(calls[p]) :
            ~Applied(p, i) =>
                /\ calls[p][i].outcome \in RemoteErrors
                /\ i = Len(calls[p])
                /\ pc[p] = "raised"
                /\ err[p] = calls[p][i].outcome
                /\ \A j \in 1..(i - 1) :
                      /\ Applied(p, j)
                      /\ IsDelete(calls[p][j])
                            => calls[p][j].args[1] \notin DOMAIN graph.text
                      /\ (IsInsert(calls[p][j]) /\ Truthy(calls[p][j].new_uuid))
                            => /\ calls[p][j].new_uuid.s \in DOMAIN graph.text
                               /\ graph.text[calls[p][j].new_uuid.s]
                                     = calls[p][j].content

C5_Witness ==
    \E p \in Procs :
        /\ pc[p] = "raised"
        /\ err[p] = "HTTPError"
        /\ Len(calls[p]) >= 4
        /\ IsInsert(calls[p][Len(calls[p])])
        /\ ~Applied(p, Len(calls[p]))
        /\ \E j \in 1..Len(calls[p]) : IsDelete(calls[p][j]) /\ Applied(p, j)
        /\ \E j \in 1..Len(calls[p]) :
              /\ IsInsert(calls[p][j]) /\ Applied(p, j)
              /\ Truthy(calls[p][j].new_uuid)
              /\ calls[p][j].new_uuid.s \in DOMAIN graph.text

\* in the parent numbering par, spec k is a proper ancestor of spec m
RECURSIVE IsAncestor(_, _, _)
IsAncestor(par, k, m) ==
    /\ m # 0
    /\ par[m] # 0
    /\ (par[m] = k \/ IsAncestor(par, k, par[m]))

\* the i-th insert call of p was carried out and gave no identifier
ExtractionFailed(p, i) ==
    /\ InsertCalls(p)[i].outcome = "ok"
    /\ InsertCalls(p)[i].new_uuid = JNull

(***************************************************************************)
(* C6: when the insert of a spec succeeds and no identifier can be         *)
(* extracted from its result, no insert call is issued for any descendant  *)
(* of that spec, and the returned list holds no entry for it: every entry  *)
(* is the identifier extracted for a root spec, and there are no more      *)
(* entries than root specs whose insert gave an identifier.                *)
(***************************************************************************)
C6_NoIdentifierNoSubtree ==
    \A p \in Procs :
        LET ins == InsertCalls(p)
            par == ParentsFrom(args[p].blocks, 0, 1)
            roots == RootInserts(p)
            named == {i \in 1..Len(roots) : roots[i].new_uuid # JNull}
        IN  /\ \A i \in 1..Len(ins) :
                  ExtractionFailed(p, i) =>
                      \A j \in 1..Len(ins) :
                          ~IsAncestor(par, NodeOfInsert(p, i), NodeOfInsert(p, j))
            /\ Len(inserted[p]) <= Cardinality(named)
            /\ \A n \in 1..Len(inserted[p]) :
                  \E i \in named : roots[i].new_uuid = JStr(inserted[p][n])

C6_Witness ==
    \E p \in Procs :
        /\ pc[p] = "returned"
        /\ ParentsFrom(args[p].blocks, 0, 1) = <<0, 1, 0>>
        /\ Len(InsertCalls(p)) = 2
        /\ ExtractionFailed(p, 1)
        /\ NodeOfInsert(p, 2) = 3
        /\ Len(inserted[p]) = 1

\* the pre-order numbers of the specs of p's forest that have no content
Invalid(p) ==
    LET nodes == PreOrder(args[p].blocks)
    IN  {k \in 1..Len(nodes) : "content" \notin DOMAIN nodes[k]}

\* the inserter of p stands at the entry of a call for a spec without content
AtInvalidSpec(p) ==
    /\ pc[p] = "insert_tree"
    /\ "content" \notin DOMAIN stack[p][Len(stack[p])].block_data

(***************************************************************************)
(* C7: the inserter called for a spec without content raises the           *)
(* invalid-spec error (ValueError) in that very step, without a remote     *)
(* call and without touching the graph; every insert call is made for a   *)
(* spec that has content, and none for a spec below one without content.   *)
(***************************************************************************)
C7_MissingContentRaises ==
    /\ [](\A p \in Procs : \A i \in 1..Len(InsertCalls(p)) :
            /\ NodeOfInsert(p, i) # 0
            /\ \A k \in Invalid(p) :
                  ~IsAncestor(ParentsFrom(args[p].blocks, 0, 1), k,
                              NodeOfInsert(p, i)))
    /\ [][\A p \in Procs :
            AtInvalidSpec(p) =>
                /\ pc'[p] = "raised"
                /\ err'[p] = "ValueError"
                /\ calls' = calls
                /\ graph' = graph]_vars

C7_Witness ==
    \E p \in Procs :
        /\ pc[p] = "raised"
        /\ err[p] = "ValueError"
        /\ ParentsFrom(args[p].blocks, 0, 1) = <<0, 1, 1>>
        /\ Invalid(p) = {2}
        /\ Len(InsertCalls(p)) = 1

(***************************************************************************)
(* C9 as stated: every invocation fetches the children of the parent       *)
(* before its first mutating call, so the first remote call of every       *)
(* invocation is the fetch.                                                *)
(***************************************************************************)
C9_AlwaysFetchesFirst ==
    \A p \in Procs : calls[p] # <<>> => IsFetch(calls[p][1])

(***************************************************************************)
(* C9 amended: an invocation with delete_existing = true fetches the       *)
(* children of the parent before its first mutating call, the fetch        *)
(* answers with the children the remote has at that moment, and the        *)
(* invocation deletes only blocks that this fetch listed; an invocation    *)
(* with delete_existing = false issues no fetch at all.                    *)
(***************************************************************************)
C9_FetchesBeforeDeleting ==
    /\ [](\A p \in Procs :
            IF args[p].delete_existing
            THEN /\ calls[p] # <<>> => IsFetch(calls[p][1])
                 /\ Len(FetchCalls(p)) <= 1
                 /\ \A i \in 1..Len(DeleteCalls(p)) :
                       \E k \in 1..Len(StringUuids(existing_children[p])) :
                           StringUuids(existing_children[p])[k]
                               = DeleteCalls(p)[i].args[1]
            ELSE FetchCalls(p) = <<>>)
    /\ [][\A p \in Procs :
            (pc[p] = "fetch" /\ pc'[p] = "delete_loop") =>
                StringUuids(existing_children'[p]) = graph.kids[args[p].parent]]_vars

\* the second invocation deletes a block that the first one inserted: it
\* can know that block only from its own fetch
C9_Witness ==
    /\ args[2].delete_existing
    /\ \E i \in 1..Len(DeleteCalls(2)) : \E j \in 1..Len(InsertCalls(1)) :
          InsertCalls(1)[j].new_uuid = JStr(DeleteCalls(2)[i].args[1])

(***************************************************************************)
(* C10: two invocations on the same parent are not coordinated.  A tool    *)
(* call begins whatever the other one is doing; and when both replace the  *)
(* children by a non-empty forest and neither deletes a block of the       *)
(* other, which happens when each fetches before the other inserts, the    *)
(* parent ends with the blocks of both, so that its children are neither   *)
(* invocation's forest.                                                    *)
(***************************************************************************)
DeletedBlockOf(p, q) ==
    \E i \in 1..Len(DeleteCalls(p)) : \E j \in 1..Len(InsertCalls(q)) :
        InsertCalls(q)[j].new_uuid = JStr(DeleteCalls(p)[i].args[1])

BothReplaced ==
    \A p \in Procs :
        /\ pc[p] = "returned"
        /\ args[p].delete_existing
        /\ args[p].blocks # <<>>

C10_Uncoordinated ==
    /\ \A p \in Procs : pc[p] = "idle" => ENABLED StartConc(p)
    /\ (BothReplaced /\ ~DeletedBlockOf(1, 2) /\ ~DeletedBlockOf(2, 1))
          => /\ Len(graph.kids[Target])
                   = Len(args[1].blocks) + Len(args[2].blocks)
             /\ \A p \in Procs :
                   GraphForest(graph, Target) # SpecForest(args[p].blocks)

C10_Witness ==
    /\ BothReplaced
    /\ Len(graph0.kids[Target]) = 2
    /\ Len(graph.kids[Target]) = Len(args[1].blocks) + Len(args[2].blocks)
    /\ \A p \in Procs : GraphForest(graph, Target) # SpecForest(args[p].blocks)
    /\ \A p \in Procs : Len(DeleteCalls(p)) = 2

(***************************************************************************)
(* Vocabulary of the properties of the two helpers.                        *)
(***************************************************************************)
Normalised == answer.of = "_get_children_tree"
Extracted == answer.of = "_extract_block_uuid"

\* the value under key of an object, None for anything else
Field(v, key) == IF v.t = "obj" THEN Get(v, key) ELSE JNull

\* the four places _extract_block_uuid may find an identifier in, in its
\* order of preference
Candidates(v) ==
    <<Field(v, "uuid"), Field(v, "id"),
      Field(Field(v, "block"), "uuid"), Field(Field(v, "block"), "id")>>

(***************************************************************************)
(* C11: the children-tree fetcher returns the empty sequence for the       *)
(* responses null, {}, {"children": null} and [], the array under          *)
(* "children" for an object that has one, and a bare non-empty array as    *)
(* it is, in the remote order.                                             *)
(***************************************************************************)
C11_NormalisesChildren ==
    Normalised =>
        /\ payload \in {JNull, JObj(<<>>), JObj([children |-> JNull]),
                        JList(<<>>)}
              => answer.value = JList(<<>>)
        /\ Field(payload, "children").t = "list"
              => answer.value = JList(Field(payload, "children").xs)
        /\ (payload.t = "list" /\ payload.xs # <<>>)
              => answer.value = payload

C11_Witness ==
    /\ Normalised
    /\ payload = JObj([children |-> JList(<<JObj([uuid |-> JStr("x")]),
                                            JObj([uuid |-> JStr("y")])>>)])
    /\ answer.value = JList(<<JObj([uuid |-> JStr("x")]),
                              JObj([uuid |-> JStr("y")])>>)

(***************************************************************************)
(* C12 as stated: for every response that is neither absent or empty       *)
(* (null, "", [], {}) nor an object nor an array, so for every number,     *)
(* boolean and non-empty string, the fetcher returns the empty sequence    *)
(* and logs a warning.                                                     *)
(***************************************************************************)
C12_EveryScalarWarns ==
    (Normalised /\ payload.t \in {"num", "bool", "str"} /\ payload # JStr(""))
        => (answer.value = JList(<<>>) /\ answer.warned)

(***************************************************************************)
(* C12 amended: for every response that is truthy and neither an object    *)
(* nor an array (a number other than 0, true, a non-empty string) the      *)
(* fetcher returns the empty sequence and logs a warning; the responses 0, *)
(* false and "" are taken for an absent one: the empty sequence, without   *)
(* a warning.  In both cases the fetcher returns.                          *)
(***************************************************************************)
C12_TruthyScalarWarns ==
    (Normalised /\ payload.t \in {"num", "bool", "str"})
        => /\ answer.value = JList(<<>>)
           /\ answer.warned <=> payload \notin {JNum(0), JBool(FALSE), JStr("")}

C12_Witness ==
    /\ Normalised
    /\ payload = JNum(7)
    /\ answer.value = JList(<<>>)
    /\ answer.warned

(***************************************************************************)
(* C13: identifier extraction returns a string result as it is; for an     *)
(* object it returns the first string among the top-level uuid, the        *)
(* top-level id, the nested block object's uuid and the nested block       *)
(* object's id, so that the nested block is consulted only when neither    *)
(* top-level key holds a string.                                           *)
(***************************************************************************)
C13_ExtractionPriority ==
    Extracted =>
        /\ payload.t = "str" => answer.value = payload
        /\ payload.t = "obj" =>
              \A i \in 1..4 :
                  ( /\ Candidates(payload)[i].t = "str"
                    /\ \A j \in 1..(i - 1) : Candidates(payload)[j].t # "str" )
                  => answer.value = Candidates(payload)[i]

C13_Witness ==
    /\ Extracted
    /\ payload = JObj([uuid |-> JStr("a"), id |-> JStr("b"),
                       block |-> JObj([uuid |-> JStr("c"), id |-> JStr("d")])])
    /\ answer.value = JStr("a")

(***************************************************************************)
(* C14 as stated: identifier extraction yields None for every result that  *)
(* is neither a string nor an object, and for every object in which uuid   *)
(* or id is present with a value that is no string.                        *)
(***************************************************************************)
C14_NonStringKeyNotFound ==
    Extracted =>
        /\ payload.t \notin {"str", "obj"} => answer.value = JNull
        /\ ( /\ payload.t = "obj"
             /\ \E k \in {"uuid", "id"} :
                   k \in DOMAIN payload.f /\ payload.f[k].t # "str" )
           => answer.value = JNull

(***************************************************************************)
(* C14 amended: identifier extraction yields None for every result that    *)
(* is neither a string nor an object, and for exactly the objects in which *)
(* none of the top-level uuid, the top-level id, the nested block          *)
(* object's uuid and the nested block object's id is a string; a key whose *)
(* value is no string is passed over and the search goes on.               *)
(***************************************************************************)
C14_NotFoundWithoutStringKey ==
    Extracted =>
        /\ payload.t \notin {"str", "obj"} => answer.value = JNull
        /\ payload.t = "obj" =>
              (answer.value = JNull
                  <=> \A i \in 1..4 : Candidates(payload)[i].t # "str")

C14_Witness ==
    /\ Extracted
    /\ payload = JObj([uuid |-> JNum(7), block |-> JObj([id |-> JNum(7)])])
    /\ answer.value = JNull

(***************************************************************************)
(* C15: every insert call of replace_children carries the three options    *)
(* isPageBlock, before and customUUID: isPageBlock is the caller's is_page *)
(* for a root spec and false for a descendant spec, before is false, and   *)
(* customUUID is the spec's custom_uuid, null when the spec has none.      *)
(***************************************************************************)
C15_InsertOptions ==
    \A p \in Procs :
        LET ins == InsertCalls(p)
            par == ParentsFrom(args[p].blocks, 0, 1)
            nodes == PreOrder(args[p].blocks)
        IN  \A i \in 1..Len(ins) :
                LET k == NodeOfInsert(p, i)
                IN  /\ k # 0
                    /\ DOMAIN ins[i].options
                          = {"isPageBlock", "before", "customUUID"}
                    /\ ins[i].options.isPageBlock
                          = (IF par[k] = 0 THEN args[p].is_page ELSE FALSE)
                    /\ ins[i].options.before = FALSE
                    /\ ins[i].options.customUUID
                          = (IF "custom_uuid" \in DOMAIN nodes[k]
                             THEN JStr(nodes[k]["custom_uuid"]) ELSE JNull)

C15_Witness ==
    \E p \in Procs :
        /\ pc[p] = "returned"
        /\ args[p].is_page
        /\ ParentsFrom(args[p].blocks, 0, 1) = <<0, 1>>
        /\ Len(InsertCalls(p)) = 2
        /\ InsertCalls(p)[1].options
              = [isPageBlock |-> TRUE, before |-> FALSE, customUUID |-> JNull]
        /\ InsertCalls(p)[2].options
              = [isPageBlock |-> FALSE, before |-> FALSE,
                 customUUID |-> JStr(CustomUuid)]

(***************************************************************************)
(* C16: when replace_children fails with an error, run_tool catches it and *)
(* returns a text that names the target and the message of the error.      *)
(***************************************************************************)
C16_FailureReported ==
    \A p \in Procs :
        (pc[p] = "raised" /\ report[p] # NoReport) =>
            /\ report[p].kind = "text"
            /\ \E i \in DOMAIN report[p].lines :
                  report[p].lines[i].value = args[p].parent
            /\ \E i \in DOMAIN report[p].lines :
                  report[p].lines[i].value = err[p]

\* what run_tool does instead: the error leaves it as it was raised, and the
\* only text it ever returns is the summary of a normal return
C16_ErrorEscapes ==
    \A p \in Procs :
        /\ (pc[p] = "raised" /\ report[p] # NoReport)
              => report[p] = [kind |-> "raised", error |-> err[p]]
        /\ report[p].kind = "text" => pc[p] = "returned"

\* the pre-order numbers of the specs p has issued an insert call for
InsertedNodes(p) == {NodeOfInsert(p, i) : i \in 1..Len(InsertCalls(p))}

\* spec k of p's forest lies below a spec whose insert gave no identifier
BelowFailure(p, k) ==
    \E i \in 1..Len(InsertCalls(p)) :
        /\ ExtractionFailed(p, i)
        /\ IsAncestor(ParentsFrom(args[p].blocks, 0, 1), NodeOfInsert(p, i), k)

(***************************************************************************)
(* C17: an insert whose result gives no identifier does not end the        *)
(* invocation: the step that meets it goes back to the loop of the caller  *)
(* (over the children of the parent spec, or over the root specs) without  *)
(* an error, and when the invocation returns, an insert call has been      *)
(* issued, in input order, for every spec that does not lie below such an  *)
(* insert, so for every later sibling and every later root spec.           *)
(***************************************************************************)
C17_ExtractionFailureIsSoft ==
    /\ [](\A p \in Procs :
            pc[p] = "returned" =>
                /\ \A k \in 1..Len(PreOrder(args[p].blocks)) :
                      k \in InsertedNodes(p) <=> ~BelowFailure(p, k)
                /\ \A i, j \in 1..Len(InsertCalls(p)) :
                      i < j => NodeOfInsert(p, i) < NodeOfInsert(p, j))
    /\ [][\A p \in Procs :
            ( /\ pc[p] = "insert_tree"
              /\ Len(calls'[p]) = Len(calls[p]) + 1
              /\ calls'[p][Len(calls'[p])].outcome = "ok"
              /\ calls'[p][Len(calls'[p])].new_uuid = JNull )
            => /\ pc'[p] = (IF Len(stack[p]) = 1 THEN "insert_loop"
                            ELSE "child_loop")
               /\ err'[p] = "none"
               /\ warnings'[p] = warnings[p] + 1]_vars

C17_Witness ==
    \E p \in Procs :
        /\ pc[p] = "returned"
        /\ ParentsFrom(args[p].blocks, 0, 1) = <<0, 1, 1>>
        /\ Len(InsertCalls(p)) = 3
        /\ ExtractionFailed(p, 2)
        /\ NodeOfInsert(p, 3) = 3

\* the blocks of p's insert calls that gave an identifier are in the graph,
\* with the content they were inserted with
InsertedBlocksRemain(p) ==
    \A i \in 1..Len(InsertCalls(p)) :
        LET c == InsertCalls(p)[i]
        IN  (c.outcome = "ok" /\ Truthy(c.new_uuid)) =>
                /\ c.new_uuid.s \in DOMAIN graph.text
                /\ graph.text[c.new_uuid.s] = c.content

(***************************************************************************)
(* C18: a spec without content that the inserter reaches, at any position  *)
(* or depth, makes replace_children raise the invalid-spec error: the      *)
(* invocation never returns normally past such a spec; when it has raised, *)
(* every insert call was made for a spec that precedes the invalid one in  *)
(* pre-order, none for a later one, and the blocks inserted before are     *)
(* still in the remote graph.                                              *)
(***************************************************************************)
C18_InvalidSpecAborts ==
    \A p \in Procs :
        /\ (pc[p] = "raised" /\ err[p] = "ValueError") =>
              /\ \E k \in Invalid(p) :
                    /\ ~BelowFailure(p, k)
                    /\ \A i \in 1..Len(InsertCalls(p)) :
                          NodeOfInsert(p, i) # 0 /\ NodeOfInsert(p, i) < k
              /\ \A i \in 1..Len(calls[p]) : Applied(p, i)
              /\ InsertedBlocksRemain(p)
        /\ pc[p] = "returned" => \A k \in Invalid(p) : BelowFailure(p, k)

C18_Witness ==
    \E p \in Procs :
        /\ pc[p] = "raised"
        /\ err[p] = "ValueError"
        /\ ParentsFrom(args[p].blocks, 0, 1) = <<0, 1, 0>>
        /\ Invalid(p) = {2}
        /\ Len(InsertCalls(p)) = 1
        /\ Truthy(InsertCalls(p)[1].new_uuid)
        /\ InsertCalls(p)[1].new_uuid.s \in DOMAIN graph.text

\* how many items of seq are x
Count(seq, x) == Cardinality({i \in DOMAIN seq : seq[i] = x})

\* the uuids p has issued a delete call for, in the order of the calls
DeletedUuids(p) == [i \in 1..Len(DeleteCalls(p)) |-> DeleteCalls(p)[i].args[1]]

\* the string uuids listed inside the fetched children: the grandchildren
\* of the parent and what lies below them
RECURSIVE NestedUuids(_)
NestedUuids(ec) ==
    IF ec.t # "list" THEN {}
    ELSE UNION { LET below == Field(ec.xs[i], "children")
                 IN  NestedUuids(below)
                     \cup {StringUuids(below)[j] :
                              j \in 1..Len(StringUuids(below))} :
                 i \in 1..Len(ec.xs) }

\* p has left its delete loop by the normal way
DeletePhaseOver(p) ==
    /\ args[p].delete_existing
    /\ pc[p] \in {"insert_loop", "insert_tree", "child_loop", "returned"}

(***************************************************************************)
(* C19: in the delete phase, a fetched immediate child whose uuid is a     *)
(* string gets one delete call, never more, and has got it when the phase  *)
(* is over; a child whose uuid is missing or no string gets none, and so   *)
(* does every block listed inside a fetched child's own children.          *)
(***************************************************************************)
C19_OneDeletePerStringChild ==
    \A p \in Procs :
        args[p].delete_existing =>
            LET ids == StringUuids(existing_children[p])
                dels == DeletedUuids(p)
            IN  /\ \A i \in 1..Len(dels) :
                      Count(dels, dels[i]) <= Count(ids, dels[i])
                /\ DeletePhaseOver(p) =>
                      \A i \in 1..Len(ids) :
                          Count(dels, ids[i]) = Count(ids, ids[i])
                /\ \A u \in NestedUuids(existing_children[p]) :
                      Count(ids, u) = 0 => Count(dels, u) = 0

C19_Witness ==
    \E p \in Procs :
        /\ DeletePhaseOver(p)
        /\ existing_children[p].t = "list"
        /\ Len(existing_children[p].xs) = 2
        /\ Get(existing_children[p].xs[2], "uuid") = JNum(7)
        /\ "g1" \in NestedUuids(existing_children[p])
        /\ DeletedUuids(p) = <<"e1">>

(***************************************************************************)
(* C20: block specs are validated one at a time, each when its turn to be  *)
(* inserted comes.  When replace_children with delete_existing = true has  *)
(* raised the invalid-spec error, the children were fetched, every fetched *)
(* child with a string uuid has had its delete call (so that no block that *)
(* existed before is left when the fetch listed them all), and an insert   *)
(* call was issued for every spec that precedes the invalid one in         *)
(* pre-order and does not lie below a failed extraction; whatever was      *)
(* deleted or inserted on the way has changed the remote graph.            *)
(***************************************************************************)
C20_ValidatedLazily ==
    \A p \in Procs :
        (pc[p] = "raised" /\ err[p] = "ValueError" /\ args[p].delete_existing)
        => LET ids == StringUuids(existing_children[p])
               dels == DeletedUuids(p)
           IN  /\ Len(FetchCalls(p)) = 1
               /\ Len(dels) = Len(ids)
               /\ \A i \in 1..Len(dels) : dels[i] = ids[Len(ids) + 1 - i]
               /\ FetchedAllChildren(p)
                     => DOMAIN graph.text \cap DOMAIN graph0.text = {}
               /\ \E k \in Invalid(p) :
                     \A m \in 1..(k - 1) :
                         ~BelowFailure(p, m) => m \in InsertedNodes(p)
               /\ (dels # <<>> \/ InsertCalls(p) # <<>>) => graph # graph0

C20_Witness ==
    \E p \in Procs :
        /\ pc[p] = "raised"
        /\ err[p] = "ValueError"
        /\ args[p].delete_existing
        /\ Len(graph0.kids[Target]) = 2
        /\ Len(DeletedUuids(p)) = 2
        /\ ParentsFrom(args[p].blocks, 0, 1) = <<0, 0>>
        /\ Invalid(p) = {2}
        /\ InsertedNodes(p) = {1}
        /\ DOMAIN graph.text \cap DOMAIN graph0.text = {}
        /\ Len(graph.kids[Target]) = 1

\* the i-th insert call of p was made for a root spec, and an insert call
\* was issued for a spec below it
RootWithChildrenSubmitted(p, i) ==
    LET par == ParentsFrom(args[p].blocks, 0, 1)
        k == NodeOfInsert(p, i)
    IN  /\ k # 0
        /\ par[k] = 0
        /\ \E j \in 1..Len(InsertCalls(p)) :
              IsAncestor(par, k, NodeOfInsert(p, j))

\* the identifier extracted from the i-th insert call of p is in the list
\* replace_children returns
InReturnedList(p, i) ==
    /\ InsertCalls(p)[i].new_uuid.t = "str"
    /\ \E n \in 1..Len(inserted[p]) :
          inserted[p][n] = InsertCalls(p)[i].new_uuid.s

(***************************************************************************)
(* C21: when replace_children returns, every root spec that has had an     *)
(* insert call issued for one of its descendants has its identifier in the *)
(* returned list, also when the identifier extracted is the empty string.  *)
(***************************************************************************)
C21_ChildrenOnlyOfReturnedRoots ==
    \A p \in Procs :
        pc[p] = "returned" =>
            \A i \in 1..Len(InsertCalls(p)) :
                RootWithChildrenSubmitted(p, i) => InReturnedList(p, i)

\* the same for the roots whose extracted identifier is not the empty string
C21_NonEmptyIdentifiers ==
    \A p \in Procs :
        pc[p] = "returned" =>
            \A i \in 1..Len(InsertCalls(p)) :
                ( /\ RootWithChildrenSubmitted(p, i)
                  /\ InsertCalls(p)[i].new_uuid # JStr("") )
                => InReturnedList(p, i)

\* p has raised in its delete loop: after a fetch that answered, before
\* the first turn of the loop over blocks
RaisedInDeletePhase(p) ==
    /\ pc[p] = "raised"
    /\ args[p].delete_existing
    /\ FetchCalls(p) # <<>>
    /\ FetchCalls(p)[1].outcome = "ok"
    /\ InsertCalls(p) = <<>>
    /\ err[p] # "ValueError"

\* what _get_children_tree returned is an array of objects
WellFormedChildren(ec) ==
    /\ ec.t = "list"
    /\ \A i \in 1..Len(ec.xs) : ec.xs[i].t = "obj"

(***************************************************************************)
(* C22: whatever _get_children_tree has returned, the delete loop of       *)
(* replace_children raises nothing but the error of a failed remote call:  *)
(* an entry that is no proper descriptor is skipped.                       *)
(***************************************************************************)
C22_DeletePhaseOnlyRemoteErrors ==
    \A p \in Procs :
        RaisedInDeletePhase(p) =>
            /\ err[p] \in RemoteErrors
            /\ DeleteCalls(p) # <<>>
            /\ DeleteCalls(p)[Len(DeleteCalls(p))].outcome = err[p]

\* the same when what was fetched is an array of objects, and what is
\* raised otherwise
C22_WellFormedChildrenOnly ==
    \A p \in Procs :
        RaisedInDeletePhase(p) =>
            IF WellFormedChildren(existing_children[p])
            THEN /\ err[p] \in RemoteErrors
                 /\ DeleteCalls(p) # <<>>
                 /\ DeleteCalls(p)[Len(DeleteCalls(p))].outcome = err[p]
            ELSE err[p] \in RemoteErrors \cup {"TypeError", "AttributeError"}

\* the insert calls of p directly under the parent that the remote has
\* carried out, in the order of the calls
AppliedRootInserts(p) ==
    LET UnderParent(c) == c.parent = args[p].parent /\ c.outcome = "ok"
    IN  SelectSeq(InsertCalls(p), UnderParent)

(***************************************************************************)
(* C23: an invocation with delete_existing = false issues no fetch call;   *)
(* at every moment the children of the parent are the children it had      *)
(* before, in their order and with their subtrees untouched, followed by   *)
(* the blocks of the root specs inserted so far, in input order (against a *)
(* remote whose insert appends).                                           *)
(***************************************************************************)
C23_AppendsAfterExisting ==
    \A p \in Procs :
        (Started(p) /\ ~args[p].delete_existing) =>
            LET old == graph0.kids[Target]
                now == graph.kids[Target]
                roots == AppliedRootInserts(p)
            IN  /\ FetchCalls(p) = <<>>
                /\ Len(now) = Len(old) + Len(roots)
                /\ SubSeq(now, 1, Len(old)) = old
                /\ \A i \in 1..Len(roots) :
                      /\ roots[i].content = ContentOf(args[p].blocks[i])
                      /\ graph.text[now[Len(old) + i]] = roots[i].content
                /\ \A u \in DOMAIN graph0.text :
                      /\ u \in DOMAIN graph.text
                      /\ graph.text[u] = graph0.text[u]
                      /\ graph.kids[u] = graph0.kids[u]

C23_Witness ==
    \E p \in Procs :
        /\ pc[p] = "returned"
        /\ ~args[p].delete_existing
        /\ FetchCalls(p) = <<>>
        /\ graph0.kids[Target] = <<"e1", "e2">>
        /\ Len(graph.kids[Target]) = 4
        /\ SubSeq(graph.kids[Target], 1, 2) = <<"e1", "e2">>
        /\ graph.text[graph.kids[Target][3]] = "c1"
        /\ graph.text[graph.kids[Target][4]] = "c2"

(***************************************************************************)
(* C24: replace_children with delete_existing = true, called twice in      *)
(* sequence with the same parent and the same blocks (no custom uuid, no   *)
(* failure, a remote whose insert appends), leaves the parent with the     *)
(* forest it has after the first call: the contents, nesting and sibling   *)
(* order of blocks.  Only the identifiers differ: no block of the first    *)
(* call is left after the second.                                          *)
(***************************************************************************)
C24_TwiceAsOnce ==
    args[1].delete_existing =>
        /\ (pc[1] = "returned" /\ pc[2] = "idle")
              => GraphForest(graph, Target) = SpecForest(args[1].blocks)
        /\ pc[2] = "returned"
              => /\ args[2] = args[1]
                 /\ GraphForest(graph, Target) = SpecForest(args[1].blocks)
                 /\ \A j \in 1..Len(InsertCalls(1)) :
                       InsertCalls(1)[j].new_uuid.s \notin DOMAIN graph.text

C24_Witness ==
    /\ pc[2] = "returned"
    /\ args[1].delete_existing
    /\ graph0.kids[Target] = <<"e1", "e2">>
    /\ ParentsFrom(args[1].blocks, 0, 1) = <<0, 1, 0>>
    /\ Len(DeleteCalls(1)) = 2
    /\ Len(DeleteCalls(2)) = 2
    /\ Len(InsertCalls(2)) = 3
    /\ GraphForest(graph, Target) = SpecForest(args[1].blocks)

====
